---- MODULE Spec2Model ----
(***************************************************************************)
(* ecomGateway: the three gRPC client adapters (user, order, product), the *)
(* retry interceptor they install, the processor facade and the HTTP       *)
(* handlers for /register and /login.                                      *)
(*                                                                         *)
(* Two kinds of process are modelled.  In a "harness" process one adapter  *)
(* is built by its package's New and its methods are called directly (the  *)
(* way the package tests do).  In a "gateway" process main() has built the *)
(* three adapters and the handlers call the user adapter through the       *)
(* processor; no other adapter method is reachable there.  SpecConcurrent  *)
(* is the gateway with several requests in flight at once.  A "jwt"        *)
(* process calls ParseJWT of package jwtmethod (SpecJWT).  SpecStartup is  *)
(* the gateway binary from its entry: MustLoad reads the environment,      *)
(* main() builds the adapters and starts the server; boot says how far     *)
(* main() has come.  SpecServing is the serving gateway with the fairness  *)
(* its own steps have.                                                     *)
(*                                                                         *)
(* Go values: an error is a record (isNil, grpc, code, parts); parts is    *)
(* the text of Error() cut into pieces, so that "the message contains s"   *)
(* is "s is one of the pieces".  A nil pointer payload is Nil.  A nil and  *)
(* an empty slice are both <<>>.                                           *)
(***************************************************************************)
EXTENDS Integers, Sequences, FiniteSets, TLC

VARIABLES
    proc,       \* "harness" | "gateway": which kind of process this is
    cfg,        \* the Config main() loaded (NoConfig in a harness)
    clients,    \* adapter name -> the options New gave its interceptor
    req,        \* slot -> the call or HTTP request running in it
    jwt,        \* the call of ParseJWT a "jwt" process makes, and its outcome
    boot        \* how far main() has come, and the environment it started in

vars == <<proc, cfg, clients, req, jwt, boot>>

\* What no request handler and no adapter method writes.
static == <<proc, cfg, clients, boot>>

----------------------------------------------------------------------------
(* Bounds of the model *)

MaxRetries == 3     \* largest retriesCount handed to New
MaxList == 2        \* longest list in a request or a response
MaxInFlight == 2    \* HTTP requests served at once
MaxClock == 3       \* latest instant of the clock ParseJWT reads

----------------------------------------------------------------------------
(* Names *)

Adapters == {"user", "order", "product"}

UserOps == {"Register", "Login", "GetUser"}
OrderOps == {"CreateOrder", "GetOrder", "ListUserOrders"}
ProductOps == {"GetProduct", "ListProducts", "CheckStock", "UpdateStock"}
Ops == UserOps \cup OrderOps \cup ProductOps

AdapterOf(op) ==
    IF op \in UserOps THEN "user"
    ELSE IF op \in OrderOps THEN "order"
    ELSE "product"

\* The copy of the tags in which get_order was pasted from create_order.
TagPasted(op) ==
    CASE op = "Register"       -> "grpc.user.register"
      [] op = "Login"          -> "grpc.user.login"
      [] op = "GetUser"        -> "grpc.user.getUser"
      [] op = "CreateOrder"    -> "grpc.order.create_order"
      [] op = "GetOrder"       -> "grpc.order.create_order"
      [] op = "ListUserOrders" -> "grpc.order.list_user_orders"
      [] op = "GetProduct"     -> "grpc.product.get_product"
      [] op = "ListProducts"   -> "grpc.product.list_products"
      [] op = "CheckStock"     -> "grpc.product.check_stock"
      [] op = "UpdateStock"    -> "grpc.product.update_stock"

\* `const op = ...` of each adapter method.
Tag(op) ==
    CASE op = "Register"       -> "grpc.user.register"
      [] op = "Login"          -> "grpc.user.login"
      [] op = "GetUser"        -> "grpc.user.getUser"
      [] op = "CreateOrder"    -> "grpc.order.create_order"
      [] op = "GetOrder"       -> "grpc.order.get_order"
      [] op = "ListUserOrders" -> "grpc.order.list_user_orders"
      [] op = "GetProduct"     -> "grpc.product.get_product"
      [] op = "ListProducts"   -> "grpc.product.list_products"
      [] op = "CheckStock"     -> "grpc.product.check_stock"
      [] op = "UpdateStock"    -> "grpc.product.update_stock"

----------------------------------------------------------------------------
(* Errors *)

\* The nil error.
NilErr == [isNil |-> TRUE, grpc |-> FALSE, code |-> "OK", parts |-> <<>>]

\* status.Error(code, msg): what a backend handler returns and what the
\* client side of the transport makes of an expired or cancelled context.
StatusErr(code, msg) ==
    [isNil |-> FALSE, grpc |-> TRUE, code |-> code,
     parts |-> <<"rpc error: code = ", code, " desc = ", msg>>]

\* fmt.Errorf("%s: %v", prefix, err): the text is kept, the chain is cut, so
\* status.FromError no longer finds the status.
ErrorfV(prefix, err) ==
    [isNil |-> FALSE, grpc |-> FALSE, code |-> "Unknown",
     parts |-> <<prefix, ": ">> \o err.parts]

\* fmt.Errorf("%s: %w", prefix, err): err stays reachable through Unwrap, so
\* status.FromError still finds its status and code.
ErrorfW(prefix, err) ==
    [isNil |-> FALSE, grpc |-> err.grpc, code |-> err.code,
     parts |-> <<prefix, ": ">> \o err.parts]

\* fmt.Errorf("%s: user details are empty", op): no wrapped error.
ErrorfEmpty(op) ==
    [isNil |-> FALSE, grpc |-> FALSE, code |-> "Unknown",
     parts |-> <<op, ": ", "user details are empty">>]

\* strings.Contains(err.Error(), s), on the pieces.
Contains(err, s) == \E i \in DOMAIN err.parts : err.parts[i] = s

----------------------------------------------------------------------------
(* Values that callers and backends supply *)

SeqsUpTo(S, n) == UNION {[1..k -> S] : k \in 0..n}

Nil == [nil |-> TRUE]                     \* a nil pointer
Empty == [empty |-> TRUE]                 \* emptypb.Empty

Emails == {"", "e@x"}
Logins == {"", "bob"}
Passwords == {"", "pw"}
Ids == {0, 7}
Quantities == {-2, 0, 3}
Filters == {"", "shoes"}
Tokens == {"", "abc123"}
Durations == {0, 1}                       \* per-attempt timeouts, in seconds

\* NewOrderItem of the order package.
NewOrderItem(productID, quantity, price) ==
    [ProductId |-> productID, Quantity |-> quantity, Price |-> price]

OrderItems == {NewOrderItem(10, 1, 100), NewOrderItem(20, -2, 0)}

TheUserDetails == [UserId |-> 7, Login |-> "bob", Email |-> "e@x"]
OrderDetailsSet ==
    {[OrderId |-> 10, UserId |-> 7, TotalPrice |-> 100,
      Items |-> <<NewOrderItem(10, 1, 100)>>, Status |-> "NEW"],
     [OrderId |-> 11, UserId |-> 7, TotalPrice |-> 0,
      Items |-> <<>>, Status |-> ""]}
ProductDetailsSet ==
    {[Id |-> 1, Name |-> "shoe", Description |-> "", Price |-> 100, StockCount |-> 3],
     [Id |-> 2, Name |-> "sock", Description |-> "wool", Price |-> 0, StockCount |-> 0]}

\* What a caller can pass to each adapter method (the Go parameter names).
ArgsOf(op) ==
    CASE op = "Register" ->
            [email : Emails, login : Logins, password : Passwords]
      [] op = "Login" -> [login : Logins, password : Passwords]
      [] op = "GetUser" -> [userID : Ids]
      [] op = "CreateOrder" ->
            [userID : Ids, items : SeqsUpTo(OrderItems, MaxList)]
      [] op = "GetOrder" -> [orderID : Ids]
      [] op = "ListUserOrders" -> [userID : Ids]
      [] op = "GetProduct" -> [productID : Ids]
      [] op = "ListProducts" -> [filter : Filters]
      [] op = "CheckStock" -> [productID : Ids, quantity : Quantities]
      [] op = "UpdateStock" -> [productID : Ids, quantityChange : Quantities]

\* What a backend can answer with status OK (the response message).
ResponsesOf(op) ==
    CASE op = "Register" -> [UserId : {0, 123}]
      [] op = "Login" -> [Token : Tokens]
      [] op = "GetUser" -> [UserDetails : {Nil, TheUserDetails}]
      [] op = "CreateOrder" -> {[OrderId |-> 555, TotalPrice |-> 500],
                                [OrderId |-> 0, TotalPrice |-> 0]}
      [] op = "GetOrder" -> [OrderDetails : {Nil} \cup OrderDetailsSet]
      [] op = "ListUserOrders" -> [Orders : SeqsUpTo(OrderDetailsSet, MaxList)]
      [] op = "GetProduct" -> [ProductDetails : {Nil} \cup ProductDetailsSet]
      [] op = "ListProducts" -> [Products : SeqsUpTo(ProductDetailsSet, MaxList)]
      [] op = "CheckStock" -> [IsAvailable : BOOLEAN]
      [] op = "UpdateStock" -> {Empty}

\* The status codes a backend answers with, and the text it gives with each.
RetryCodes == {"NotFound", "Aborted", "DeadlineExceeded"}
Codes == RetryCodes \cup
         {"Internal", "Unavailable", "Unauthenticated", "FailedPrecondition",
          "Canceled"}
BackendMsg(code) == "backend: " \o code

NoResp == [none |-> TRUE]

\* One backend answer to one attempt: a response, or an error status.
AnswersOf(op) ==
    [ok : {TRUE}, code : {"OK"}, resp : ResponsesOf(op)]
    \cup [ok : {FALSE}, code : Codes, resp : {NoResp}]

AnswerErr(ans) ==
    IF ans.ok THEN NilErr ELSE StatusErr(ans.code, BackendMsg(ans.code))

----------------------------------------------------------------------------
(* The adapters: package usergrpc, ordergrpc, productgrpc *)

\* New of each package: the call options of the retry interceptor that the
\* connection is built with.  uint(retriesCount) is retriesCount for the
\* non-negative counts the model draws.
New(target, timeout, retriesCount) ==
    [target |-> target,
     codes |-> {"NotFound", "Aborted", "DeadlineExceeded"},
     max |-> retriesCount,
     perCallTimeout |-> timeout]

\* The parameters of each method, in the order of its signature.
RegisterArgs(email, login, password) ==
    [email |-> email, login |-> login, password |-> password]
LoginArgs(login, password) == [login |-> login, password |-> password]

\* Register with Login and Password exchanged in the request literal.
RegisterRequestSwapped(a) ==
    [Email |-> a.email, Login |-> a.password, Password |-> a.login]

\* The request message each method builds from its parameters.
RegisterRequest(a) ==
    [Email |-> a.email, Login |-> a.login, Password |-> a.password]
LoginRequest(a) == [Login |-> a.login, Password |-> a.password]
GetUserRequest(a) == [UserId |-> a.userID]
CreateOrderRequest(a) == [UserId |-> a.userID, Items |-> a.items]
GetOrderRequest(a) == [OrderId |-> a.orderID]
ListUserOrdersRequest(a) == [UserId |-> a.userID]
GetProductRequest(a) == [ProductId |-> a.productID]
ListProductsRequest(a) == [Filter |-> a.filter]
CheckStockRequest(a) == [ProductId |-> a.productID, Quantity |-> a.quantity]
UpdateStockRequest(a) ==
    [ProductId |-> a.productID, QuantityChange |-> a.quantityChange]

Request(op, a) ==
    CASE op = "Register"       -> RegisterRequest(a)
      [] op = "Login"          -> LoginRequest(a)
      [] op = "GetUser"        -> GetUserRequest(a)
      [] op = "CreateOrder"    -> CreateOrderRequest(a)
      [] op = "GetOrder"       -> GetOrderRequest(a)
      [] op = "ListUserOrders" -> ListUserOrdersRequest(a)
      [] op = "GetProduct"     -> GetProductRequest(a)
      [] op = "ListProducts"   -> ListProductsRequest(a)
      [] op = "CheckStock"     -> CheckStockRequest(a)
      [] op = "UpdateStock"    -> UpdateStockRequest(a)

\* What each method returns once c.api.X has returned (resp, err): vals are
\* the values before the error in the method's return list.
Failed(op, zero, err) == [vals |-> zero, err |-> ErrorfW(Tag(op), err)]
Ok(vals) == [vals |-> vals, err |-> NilErr]

\* GetUser without the check of resp.UserDetails.
GetUserUnchecked(resp, err) ==
    IF ~err.isNil THEN Failed("GetUser", <<Nil>>, err)
    ELSE Ok(<<resp.UserDetails>>)

\* CreateOrder with the two results exchanged.
CreateOrderSwapped(resp, err) ==
    IF ~err.isNil THEN Failed("CreateOrder", <<0, 0>>, err)
    ELSE Ok(<<resp.TotalPrice, resp.OrderId>>)

Register(resp, err) ==
    IF ~err.isNil THEN Failed("Register", <<0>>, err)
    ELSE Ok(<<resp.UserId>>)
Login(resp, err) ==
    IF ~err.isNil THEN Failed("Login", <<"">>, err)
    ELSE Ok(<<resp.Token>>)
GetUser(resp, err) ==
    IF ~err.isNil THEN Failed("GetUser", <<Nil>>, err)
    ELSE IF resp.UserDetails = Nil
         THEN [vals |-> <<Nil>>, err |-> ErrorfEmpty(Tag("GetUser"))]
         ELSE Ok(<<resp.UserDetails>>)
CreateOrder(resp, err) ==
    IF ~err.isNil THEN Failed("CreateOrder", <<0, 0>>, err)
    ELSE Ok(<<resp.OrderId, resp.TotalPrice>>)
GetOrder(resp, err) ==
    IF ~err.isNil THEN Failed("GetOrder", <<Nil>>, err)
    ELSE Ok(<<resp.OrderDetails>>)
ListUserOrders(resp, err) ==
    IF ~err.isNil THEN Failed("ListUserOrders", <<<<>>>>, err)
    ELSE Ok(<<resp.Orders>>)
GetProduct(resp, err) ==
    IF ~err.isNil THEN Failed("GetProduct", <<Nil>>, err)
    ELSE Ok(<<resp.ProductDetails>>)
ListProducts(resp, err) ==
    IF ~err.isNil THEN Failed("ListProducts", <<<<>>>>, err)
    ELSE Ok(<<resp.Products>>)
CheckStock(resp, err) ==
    IF ~err.isNil THEN Failed("CheckStock", <<FALSE>>, err)
    ELSE Ok(<<resp.IsAvailable>>)
UpdateStock(resp, err) ==
    IF ~err.isNil THEN Failed("UpdateStock", <<>>, err)
    ELSE Ok(<<>>)

Return(op, resp, err) ==
    CASE op = "Register"       -> Register(resp, err)
      [] op = "Login"          -> Login(resp, err)
      [] op = "GetUser"        -> GetUser(resp, err)
      [] op = "CreateOrder"    -> CreateOrder(resp, err)
      [] op = "GetOrder"       -> GetOrder(resp, err)
      [] op = "ListUserOrders" -> ListUserOrders(resp, err)
      [] op = "GetProduct"     -> GetProduct(resp, err)
      [] op = "ListProducts"   -> ListProducts(resp, err)
      [] op = "CheckStock"     -> CheckStock(resp, err)
      [] op = "UpdateStock"    -> UpdateStock(resp, err)

----------------------------------------------------------------------------
(* The retry interceptor New installs: grpcretry.UnaryClientInterceptor of   *)
(* go-grpc-middleware/v2 under the options WithCodes, WithMax and           *)
(* WithPerRetryTimeout.  With max = 0 it calls the invoker once with the    *)
(* caller's context.  Otherwise it runs                                     *)
(*     for attempt := 0; attempt < max; attempt++                           *)
(* waiting the back-off before every attempt but the first, giving each     *)
(* attempt a context that expires after perCallTimeout (when that is not    *)
(* 0), and after each attempt: success returns; a context error (code       *)
(* DeadlineExceeded or Canceled) returns when the caller's context is done  *)
(* and otherwise, when perCallTimeout is not 0, goes on to the next         *)
(* attempt; any other error goes on only if it is retriable, and a context  *)
(* error never is.  When the loop ends the last error is returned.          *)

isContextError(err) == err.code \in {"DeadlineExceeded", "Canceled"}

isRetriable(err, callOpts) ==
    /\ ~isContextError(err)
    /\ err.code \in callOpts.codes

\* The interceptor without its look at the caller's context: a context error
\* is retried under a per-attempt timeout whether the caller is gone or not.
AfterAttemptNoParentCheck(callOpts, attempt, err, parentErr) ==
    LET continue == IF attempt + 1 < callOpts.max THEN "retry" ELSE "return"
    IN  IF callOpts.max = 0 THEN "return"
        ELSE IF err.isNil THEN "return"
        ELSE IF isContextError(err) /\ callOpts.perCallTimeout # 0 THEN continue
        ELSE IF ~isRetriable(err, callOpts) THEN "return"
        ELSE continue

\* What the interceptor does after attempt number `attempt` ended with err,
\* the caller's context being parentErr ("live" when it is not done).
AfterAttempt(callOpts, attempt, err, parentErr) ==
    LET continue == IF attempt + 1 < callOpts.max THEN "retry" ELSE "return"
    IN  IF callOpts.max = 0 THEN "return"
        ELSE IF err.isNil THEN "return"
        ELSE IF isContextError(err) /\ parentErr # "live" THEN "return"
        ELSE IF isContextError(err) /\ callOpts.perCallTimeout # 0 THEN continue
        ELSE IF ~isRetriable(err, callOpts) THEN "return"
        ELSE continue

\* perCallContext: an attempt has a deadline of its own only inside the loop.
AttemptHasDeadline(callOpts) ==
    callOpts.max # 0 /\ callOpts.perCallTimeout # 0

\* The status the transport reports for a context that is done.
ContextMsg(kind) ==
    IF kind = "Canceled" THEN "context canceled"
    ELSE "context deadline exceeded"
ContextErr(kind) == StatusErr(kind, ContextMsg(kind))

----------------------------------------------------------------------------
(* The processor: package processor *)

LogEntry(level, msg, err) == [level |-> level, msg |-> msg, err |-> err]

\* RegisterUser that hands email, password, login to Register in the order it
\* got them.
RegisterUserCallSwapped(email, password, login) ==
    RegisterArgs(email, password, login)

\* RegisterUser(ctx, email, password, login) and LoginUser(ctx, login,
\* password): the adapter call each makes.
RegisterUserCall(email, password, login) == RegisterArgs(email, login, password)
LoginUserCall(login, password) == LoginArgs(login, password)

\* LoginUser that prints the failure and returns no error.
LoginUserSuppress(res) ==
    IF ~res.err.isNil
    THEN [vals |-> <<"">>, err |-> NilErr,
          log |-> <<LogEntry("PRINT", "Error logging user ", res.err)>>]
    ELSE [vals |-> res.vals, err |-> NilErr, log |-> <<>>]

\* ... and what each returns, and prints, once the adapter has returned.
RegisterUser(res) ==
    IF ~res.err.isNil
    THEN [vals |-> <<0>>, err |-> ErrorfW("user service error", res.err),
          log |-> <<LogEntry("PRINT", "Error registering user", res.err)>>]
    ELSE [vals |-> res.vals, err |-> NilErr, log |-> <<>>]
LoginUser(res) ==
    IF ~res.err.isNil
    THEN [vals |-> <<"">>, err |-> ErrorfW("user service error", res.err),
          log |-> <<LogEntry("PRINT", "Error logging user ", res.err)>>]
    ELSE [vals |-> res.vals, err |-> NilErr, log |-> <<>>]

----------------------------------------------------------------------------
(* The HTTP handlers: package httphandler *)

\* A request body.  One that can be read holds no JSON at all ("malformed"),
\* the JSON null, a JSON array, or a JSON object; of an object only the
\* members email, password and login matter, and each is absent, null, a
\* number or a string.
FieldVals(str) ==
    {[t |-> "missing", s |-> ""], [t |-> "null", s |-> ""],
     [t |-> "number", s |-> ""], [t |-> "string", s |-> ""],
     [t |-> "string", s |-> str]}

Bodies ==
    [kind : {"unreadable", "malformed", "null", "array"},
     fields : {[email |-> [t |-> "missing", s |-> ""],
                password |-> [t |-> "missing", s |-> ""],
                login |-> [t |-> "missing", s |-> ""]]}]
    \cup
    [kind : {"object"},
     fields : [email : FieldVals("e@x"), password : FieldVals("pw"),
               login : FieldVals("bob")]]

Routes == {"/register", "/login"}

\* io.ReadAll(r.Body): whether it returns an error.
ReadAllFails(body) == body.kind = "unreadable"

\* json.Unmarshal into a string field: an absent or null member leaves "", a
\* string is stored, anything else is a type error (and leaves "").
FieldString(fv) == IF fv.t = "string" THEN fv.s ELSE ""
FieldTypeError(fv) == fv.t = "number"

\* json.Unmarshal(body, &req) for registerRequest.
UnmarshalRegister(body) ==
    [err |-> \/ body.kind \in {"malformed", "array"}
             \/ \E f \in {"email", "password", "login"} :
                    FieldTypeError(body.fields[f]),
     Email |-> FieldString(body.fields.email),
     Password |-> FieldString(body.fields.password),
     Login |-> FieldString(body.fields.login)]

\* json.Unmarshal(body, &req) for loginRequest, which has no email field.
UnmarshalLogin(body) ==
    [err |-> \/ body.kind \in {"malformed", "array"}
             \/ \E f \in {"password", "login"} :
                    FieldTypeError(body.fields[f]),
     Login |-> FieldString(body.fields.login),
     Password |-> FieldString(body.fields.password)]

\* The response payloads and json.Marshal of each (the `json:` tags).
registerResponse(userID, message) ==
    [type |-> "registerResponse", UserID |-> userID, Message |-> message]
loginResponse(token, message) ==
    [type |-> "loginResponse", Token |-> token, Message |-> message]
errorResponse(message) == [type |-> "errorResponse", Error |-> message]

Marshal(payload) ==
    CASE payload.type = "registerResponse" ->
            [user_id |-> payload.UserID, message |-> payload.Message]
      [] payload.type = "loginResponse" ->
            [token |-> payload.Token, message |-> payload.Message]
      [] payload.type = "errorResponse" -> [error |-> payload.Error]

\* respondWithJSON: json.Marshal cannot fail on these three payloads.
respondWithJSON(code, payload) ==
    [code |-> code, contentType |-> "application/json", body |-> Marshal(payload)]
respondWithError(code, message) == respondWithJSON(code, errorResponse(message))

NoArgs == [none |-> TRUE]
NoResponse == [none |-> TRUE]

\* What a handler does that can be seen from outside, in the order of its
\* statements: the log entries it makes and the response it writes.
Written(response) == [level |-> "WRITE", response |-> response]

\* h.logger.X(...) followed by h.respondWithError / h.respondWithJSON.
LogThenRespond(entry, response) ==
    [response |-> response, log |-> <<entry>>,
     events |-> <<entry, Written(response)>>]

\* A handler's outcome before the processor is called: the response it
\* wrote (call = FALSE), or the processor call it makes (call = TRUE).
Respond(response, log) ==
    [call |-> FALSE, facade |-> "", op |-> "", args |-> NoArgs,
     response |-> response, log |-> log,
     events |-> log \o <<Written(response)>>]
CallProcessor(facade, op, args) ==
    [call |-> TRUE, facade |-> facade, op |-> op, args |-> args,
     response |-> NoResponse, log |-> <<>>, events |-> <<>>]

\* register whose check of the required fields forgets the password.
registerNoPasswordCheck(body) ==
    LET r == UnmarshalRegister(body)
    IN  IF ReadAllFails(body)
        THEN Respond(respondWithError(400, "Failed to read request body"),
                     <<LogEntry("ERROR", "Failed to read request body", NilErr)>>)
        ELSE IF r.err
        THEN Respond(respondWithError(400, "Invalid JSON payload"),
                     <<LogEntry("ERROR", "Failed to unmarshal request JSON", NilErr)>>)
        ELSE IF r.Email = "" \/ r.Login = ""
        THEN Respond(respondWithError(400, "Email, password, and login are required"),
                     <<LogEntry("WARN", "Missing required fields for registration", NilErr)>>)
        ELSE CallProcessor("RegisterUser", "Register",
                           RegisterUserCall(r.Email, r.Password, r.Login))

\* register, up to the call of h.processor.RegisterUser.
register(body) ==
    LET r == UnmarshalRegister(body)
    IN  IF ReadAllFails(body)
        THEN Respond(respondWithError(400, "Failed to read request body"),
                     <<LogEntry("ERROR", "Failed to read request body", NilErr)>>)
        ELSE IF r.err
        THEN Respond(respondWithError(400, "Invalid JSON payload"),
                     <<LogEntry("ERROR", "Failed to unmarshal request JSON", NilErr)>>)
        ELSE IF r.Email = "" \/ r.Password = "" \/ r.Login = ""
        THEN Respond(respondWithError(400, "Email, password, and login are required"),
                     <<LogEntry("WARN", "Missing required fields for registration", NilErr)>>)
        ELSE CallProcessor("RegisterUser", "Register",
                           RegisterUserCall(r.Email, r.Password, r.Login))

\* login whose check of the required fields forgets the password.
loginNoPasswordCheck(body) ==
    LET r == UnmarshalLogin(body)
    IN  IF ReadAllFails(body)
        THEN Respond(respondWithError(400, "Failed to read request body"),
                     <<LogEntry("ERROR", "Failed to read request body for login", NilErr)>>)
        ELSE IF r.err
        THEN Respond(respondWithError(400, "Invalid JSON payload"),
                     <<LogEntry("ERROR", "Failed to unmarshal login request JSON", NilErr)>>)
        ELSE IF r.Login = ""
        THEN Respond(respondWithError(400, "Login and password are required"),
                     <<LogEntry("WARN", "Missing required fields for login", NilErr)>>)
        ELSE CallProcessor("LoginUser", "Login", LoginUserCall(r.Login, r.Password))

\* login, up to the call of h.processor.LoginUser.
login(body) ==
    LET r == UnmarshalLogin(body)
    IN  IF ReadAllFails(body)
        THEN Respond(respondWithError(400, "Failed to read request body"),
                     <<LogEntry("ERROR", "Failed to read request body for login", NilErr)>>)
        ELSE IF r.err
        THEN Respond(respondWithError(400, "Invalid JSON payload"),
                     <<LogEntry("ERROR", "Failed to unmarshal login request JSON", NilErr)>>)
        ELSE IF r.Login = "" \/ r.Password = ""
        THEN Respond(respondWithError(400, "Login and password are required"),
                     <<LogEntry("WARN", "Missing required fields for login", NilErr)>>)
        ELSE CallProcessor("LoginUser", "Login", LoginUserCall(r.Login, r.Password))

\* login's answer to a success that drops the token.
loginReturnNoToken(p) ==
    IF ~p.err.isNil
    THEN LogThenRespond(LogEntry("ERROR", "Processor failed to login user", p.err),
                        respondWithError(401, "Login failed. Check credentials."))
    ELSE LogThenRespond(LogEntry("INFO", "User logged in successfully", NilErr),
                        respondWithJSON(200, loginResponse("", "Login successful")))

\* register that puts the error's text into the response.
registerReturnEchoesError(p) ==
    IF ~p.err.isNil
    THEN LogThenRespond(LogEntry("ERROR", "Processor failed to register user", p.err),
                        respondWithError(500, p.err.parts[Len(p.err.parts)]))
    ELSE LogThenRespond(LogEntry("INFO", "User registered successfully", NilErr),
                        respondWithJSON(201,
                            registerResponse(p.vals[1], "User registered successfully")))

\* login that tells bad credentials (401) from a backend that failed (500).
loginReturnByStatus(p) ==
    IF ~p.err.isNil
    THEN IF p.err.code = "Unauthenticated"
         THEN LogThenRespond(LogEntry("ERROR", "Processor failed to login user", p.err),
                             respondWithError(401, "Login failed. Check credentials."))
         ELSE LogThenRespond(LogEntry("ERROR", "Processor failed to login user", p.err),
                             respondWithError(500, "Login failed."))
    ELSE LogThenRespond(LogEntry("INFO", "User logged in successfully", NilErr),
                        respondWithJSON(200, loginResponse(p.vals[1], "Login successful")))

\* register and login from the return of the processor call on: p is what
\* the processor returned.
registerReturn(p) ==
    IF ~p.err.isNil
    THEN LogThenRespond(LogEntry("ERROR", "Processor failed to register user", p.err),
                        respondWithError(500, "Failed to register user"))
    ELSE LogThenRespond(LogEntry("INFO", "User registered successfully", NilErr),
                        respondWithJSON(201,
                            registerResponse(p.vals[1], "User registered successfully")))
loginReturn(p) ==
    IF ~p.err.isNil
    THEN LogThenRespond(LogEntry("ERROR", "Processor failed to login user", p.err),
                        respondWithError(401, "Login failed. Check credentials."))
    ELSE LogThenRespond(LogEntry("INFO", "User logged in successfully", NilErr),
                        respondWithJSON(200, loginResponse(p.vals[1], "Login successful")))

Handler(route, body) ==
    IF route = "/register" THEN register(body) ELSE login(body)

\* The way back of a request: adapter result -> processor -> handler.  The
\* processor prints before it returns, so before the handler logs.
ProcessorReturn(route, res) ==
    IF route = "/register" THEN RegisterUser(res) ELSE LoginUser(res)
HandlerReturn(route, res) ==
    LET p == ProcessorReturn(route, res)
        h == IF route = "/register" THEN registerReturn(p) ELSE loginReturn(p)
    IN  [response |-> h.response, presult |-> [vals |-> p.vals, err |-> p.err],
         log |-> p.log \o h.log, events |-> p.log \o h.events]

----------------------------------------------------------------------------
(* main: the wiring of the gateway process *)

NoConfig == [none |-> TRUE]

\* The configurations MustLoad returns.
Configs ==
    [Env : {"local"}, HttpAddress : {":8080"},
     HttpTimeout : {1}, IdleTimeout : {1},
     UserTarget : {"user:50051"}, UserTimeout : Durations,
     UserRetries : 0..MaxRetries,
     OrderTarget : {"order:50052"}, OrderTimeout : Durations,
     OrderRetries : {0, MaxRetries},
     ProductTarget : {"product:50053"}, ProductTimeout : Durations,
     ProductRetries : {0, MaxRetries}]

\* main(): the three adapters it builds from the configuration.
main(c) ==
    [user |-> New(c.UserTarget, c.UserTimeout, c.UserRetries),
     order |-> New(c.OrderTarget, c.OrderTimeout, c.UserRetries),
     product |-> New(c.ProductTarget, c.ProductTimeout, c.ProductRetries)]

----------------------------------------------------------------------------
(* State *)

NoBody == [kind |-> "none"]
NoAns == [none |-> TRUE]
NoResult == [none |-> TRUE]

\* A slot nothing runs in.
FreeSlot ==
    [kind |-> "free",           \* "free" | "call" (direct) | "http"
     route |-> "", body |-> NoBody,
     facade |-> "",             \* the processor method the handler called
     op |-> "", args |-> NoArgs,\* the adapter method called and its arguments
     ctx |-> "live",            \* the caller's context: live, or how it ended
     pc |-> "idle",             \* idle | ready | inflight | done
     attempt |-> 0,             \* the interceptor's loop variable
     sent |-> <<>>,             \* the requests that reached the backend
     open |-> 0,                \* attempts issued that have not ended yet
     answered |-> 0,            \* attempts the backend answered
     timeouts |-> 0,            \* attempts ended by the per-attempt timeout
     onlyRetryable |-> TRUE,    \* every answer so far: NotFound, Aborted or DeadlineExceeded
     lastAns |-> NoAns,         \* the backend's answer to the last attempt it answered
     lastEnd |-> "",            \* how the last attempt ended: answer | timeout | context
     lastErr |-> NilErr,        \* the error of the last attempt
     result |-> NoResult,       \* what the adapter method returned
     presult |-> NoResult,      \* what the processor method returned
     response |-> NoResponse,   \* what the handler wrote
     log |-> <<>>,              \* the entries logged and printed
     events |-> <<>>]           \* the entries and the write, in program order

Slots == DOMAIN req

\* No call of ParseJWT has been made.
NoParse == [pc |-> "idle"]

\* The process is not the gateway binary: main() never runs in it.
NoBoot == [pc |-> "none"]

\* main() has reached srv.ListenAndServe() and the server is listening.
Serving == [pc |-> "serving"]
ClientOf(r) == clients[AdapterOf(r.op)]

\* One adapter built by New, its methods called directly.
InitHarness ==
    /\ proc = "harness"
    /\ cfg = NoConfig
    /\ \E a \in Adapters, t \in Durations, n \in 0..MaxRetries :
           clients = [x \in {a} |-> New("passthrough:///bufnet", t, n)]
    /\ req = [s \in {1} |-> FreeSlot]
    /\ jwt = NoParse
    /\ boot = NoBoot

\* The gateway after main() has built the adapters and started the server.
InitGateway ==
    /\ proc = "gateway"
    /\ cfg \in Configs
    /\ clients = main(cfg)
    /\ req = [s \in {1} |-> FreeSlot]
    /\ jwt = NoParse
    /\ boot = Serving

Init == InitHarness \/ InitGateway

\* The adapter method returns: the record of a request that ends with the
\* last attempt's (resp, err); for an HTTP request the processor and the
\* handler return too and the response is written.
Finish(r, resp, err) ==
    LET res == Return(r.op, resp, err)
        h == HandlerReturn(r.route, res)
    IN  IF r.kind = "http"
        THEN [r EXCEPT !.pc = "done", !.lastErr = err, !.result = res,
                       !.presult = h.presult, !.response = h.response,
                       !.log = @ \o h.log, !.events = @ \o h.events]
        ELSE [r EXCEPT !.pc = "done", !.lastErr = err, !.result = res]

\* The end of an attempt in an interceptor that returns the first error it
\* has seen, whatever a later attempt brought.
EndAttemptFirstError(r, resp, err) ==
    IF AfterAttempt(ClientOf(r), r.attempt, err, r.ctx) = "retry"
    THEN [r EXCEPT !.pc = "ready", !.attempt = @ + 1,
                   !.lastErr = IF @.isNil THEN err ELSE @,
                   !.open = @ - 1]
    ELSE Finish([r EXCEPT !.open = @ - 1], resp,
                IF r.lastErr.isNil THEN err ELSE r.lastErr)

\* The end of an attempt with (resp, err): the interceptor returns or goes
\* on to the next attempt.
EndAttempt(r, resp, err) ==
    IF AfterAttempt(ClientOf(r), r.attempt, err, r.ctx) = "retry"
    THEN [r EXCEPT !.pc = "ready", !.attempt = @ + 1, !.lastErr = err,
                   !.open = @ - 1]
    ELSE Finish([r EXCEPT !.open = @ - 1], resp, err)

\* A caller calls an adapter method; the interceptor is entered.
Call(s, op, a) ==
    /\ proc = "harness"
    /\ req[s].kind = "free"
    /\ AdapterOf(op) \in DOMAIN clients
    /\ req' = [req EXCEPT ![s] =
                  [FreeSlot EXCEPT !.kind = "call", !.op = op, !.args = a,
                                   !.pc = "ready"]]
    /\ UNCHANGED <<static, jwt>>

\* A request arrives at /register or /login: the handler runs until it has
\* written a 400 or has called the adapter through the processor.
HttpRequest(s, route, body) ==
    /\ proc = "gateway"
    /\ boot.pc = "serving"
    /\ req[s].kind = "free"
    /\ LET h == Handler(route, body)
           r == [FreeSlot EXCEPT !.kind = "http", !.route = route,
                                 !.body = body, !.log = h.log,
                                 !.events = h.events]
       IN  req' = [req EXCEPT ![s] =
                      IF h.call
                      THEN [r EXCEPT !.facade = h.facade, !.op = h.op,
                                     !.args = h.args, !.pc = "ready"]
                      ELSE [r EXCEPT !.response = h.response, !.pc = "done"]]
    /\ UNCHANGED <<static, jwt>>

\* An interceptor that issues the next attempt without waiting for the one
\* in flight to end (hedging), while attempts remain.
SendHedged(s) ==
    /\ req[s].pc \in {"ready", "inflight"}
    /\ req[s].ctx = "live"
    /\ Len(req[s].sent) < ClientOf(req[s]).max
    /\ req' = [req EXCEPT ![s] =
                  [@ EXCEPT !.pc = "inflight", !.open = @ + 1,
                            !.sent = Append(@, Request(req[s].op, req[s].args))]]
    /\ UNCHANGED <<static, jwt>>

\* The interceptor issues the next attempt: the request reaches the backend.
\* The invoker returns only when the attempt has ended.
Send(s) ==
    /\ req[s].pc = "ready"
    /\ req[s].ctx = "live"
    /\ req' = [req EXCEPT ![s] =
                  [@ EXCEPT !.pc = "inflight", !.open = @ + 1,
                            !.sent = Append(@, Request(req[s].op, req[s].args))]]
    /\ UNCHANGED <<static, jwt>>

\* Answers that arrive through one buffer all the requests share: whoever
\* waits for an answer to the same method takes it.
ReplyShared(s, ans) ==
    /\ req[s].pc = "inflight"
    /\ ans \in AnswersOf(req[s].op)
    /\ req' = [t \in Slots |->
                  IF req[t].pc = "inflight" /\ req[t].op = req[s].op
                  THEN EndAttempt([req[t] EXCEPT !.answered = @ + 1,
                                       !.lastAns = ans, !.lastEnd = "answer",
                                       !.onlyRetryable = @ /\ ans.code \in RetryCodes],
                                  ans.resp, AnswerErr(ans))
                  ELSE req[t]]
    /\ UNCHANGED <<static, jwt>>

\* The backend answers the attempt in flight.
Reply(s, ans) ==
    /\ req[s].pc = "inflight"
    /\ ans \in AnswersOf(req[s].op)
    /\ LET r == [req[s] EXCEPT !.answered = @ + 1, !.lastAns = ans,
                     !.lastEnd = "answer",
                     !.onlyRetryable = @ /\ ans.code \in RetryCodes]
       IN  req' = [req EXCEPT ![s] = EndAttempt(r, ans.resp, AnswerErr(ans))]
    /\ UNCHANGED <<static, jwt>>

\* The attempt in flight runs into its per-attempt deadline.
AttemptTimeout(s) ==
    /\ req[s].pc = "inflight"
    /\ AttemptHasDeadline(ClientOf(req[s]))
    /\ LET r == [req[s] EXCEPT !.timeouts = @ + 1, !.lastEnd = "timeout"]
       IN  req' = [req EXCEPT ![s] =
                      EndAttempt(r, NoResp, ContextErr("DeadlineExceeded"))]
    /\ UNCHANGED <<static, jwt>>

\* The caller's context ends (cancelled, or past its deadline) while the
\* interceptor has an attempt in flight or waits to issue one: the attempt
\* ends with the context's error, which the interceptor looks at as at any
\* attempt's error; the wait ends with it and the interceptor returns it.
ContextDone(s, kind) ==
    /\ req[s].pc \in {"ready", "inflight"}
    /\ req[s].ctx = "live"
    /\ LET r == [req[s] EXCEPT !.ctx = kind, !.lastEnd = "context"]
       IN  req' = [req EXCEPT ![s] =
                      IF req[s].pc = "inflight"
                      THEN EndAttempt(r, NoResp, ContextErr(kind))
                      ELSE Finish(r, NoResp, ContextErr(kind))]
    /\ UNCHANGED <<static, jwt>>

\* The caller has its result; the slot is free for the next request.
Release(s) ==
    /\ req[s].pc = "done"
    /\ req' = [req EXCEPT ![s] = FreeSlot]
    /\ UNCHANGED <<static, jwt>>

CallAny == \E s \in Slots, op \in Ops : \E a \in ArgsOf(op) : Call(s, op, a)
HttpRequestAny ==
    \E s \in Slots, route \in Routes, body \in Bodies : HttpRequest(s, route, body)
SendAny == \E s \in Slots : Send(s)
ReplyAny == \E s \in Slots, op \in Ops : \E ans \in AnswersOf(op) : Reply(s, ans)
AttemptTimeoutAny == \E s \in Slots : AttemptTimeout(s)
ContextDoneAny ==
    \E s \in Slots, kind \in {"Canceled", "DeadlineExceeded"} : ContextDone(s, kind)
ReleaseAny == \E s \in Slots : Release(s)

Next ==
    \/ CallAny
    \/ HttpRequestAny
    \/ SendAny
    \/ ReplyAny
    \/ AttemptTimeoutAny
    \/ ContextDoneAny
    \/ ReleaseAny

Spec == Init /\ [][Next]_vars

----------------------------------------------------------------------------
(* The gateway serving several requests at once: net/http runs each        *)
(* handler in a goroutine of its own, all of them on the one processor and *)
(* the one user adapter main() built.  The inputs are a few of each kind.  *)

ConcurrentBodies ==
    {b \in Bodies :
        /\ b.kind = "object"
        /\ b.fields.email = [t |-> "string", s |-> "e@x"]
        /\ b.fields.login = [t |-> "string", s |-> "bob"]
        /\ b.fields.password \in {[t |-> "string", s |-> "pw"],
                                  [t |-> "missing", s |-> ""]}}

ConcurrentAnswers ==
    {a \in AnswersOf("Register") \cup AnswersOf("Login") :
        \/ a.code \in {"NotFound", "Internal"}
        \/ a.ok /\ a.resp \in {[UserId |-> 123], [Token |-> "abc123"]}}

InitConcurrent ==
    /\ proc = "gateway"
    /\ cfg \in {c \in Configs :
                   /\ c.UserTimeout = 1 /\ c.UserRetries = 2
                   /\ c.OrderTimeout = 1 /\ c.OrderRetries = 0
                   /\ c.ProductTimeout = 1 /\ c.ProductRetries = 0}
    /\ clients = main(cfg)
    /\ req = [s \in 1..MaxInFlight |-> FreeSlot]
    /\ jwt = NoParse
    /\ boot = Serving

HttpRequestSome ==
    \E s \in Slots, route \in Routes, body \in ConcurrentBodies :
        HttpRequest(s, route, body)
ReplySome == \E s \in Slots, ans \in ConcurrentAnswers : Reply(s, ans)
ContextDoneSome == \E s \in Slots : ContextDone(s, "Canceled")

NextConcurrent ==
    \/ HttpRequestSome
    \/ SendAny
    \/ ReplySome
    \/ AttemptTimeoutAny
    \/ ContextDoneSome
    \/ ReleaseAny

SpecConcurrent == InitConcurrent /\ [][NextConcurrent]_vars

----------------------------------------------------------------------------
(* ParseJWT: package jwtmethod, on github.com/golang-jwt/jwt/v5.           *)
(*                                                                         *)
(* An error here is a record (isNil, is, parts): `is` holds the sentinel   *)
(* errors errors.Is finds in its chain, parts the pieces of its text.      *)
(* jwt.ParseWithClaims, with no parser options, works in this order: split *)
(* the string into three segments and decode header and claims (failure:   *)
(* ErrTokenMalformed), look the header's alg up (ErrTokenUnverifiable),    *)
(* call the key function (its error under ErrTokenUnverifiable), verify    *)
(* the signature (ErrTokenSignatureInvalid), validate the claims at the    *)
(* time of the call: exp, when present, must be after now (otherwise       *)
(* ErrTokenInvalidClaims with ErrTokenExpired); iat is not looked at.      *)

NoError == [isNil |-> TRUE, is |-> {}, parts |-> <<>>]

\* errors.New(msg)
ErrorsNew(msg) == [isNil |-> FALSE, is |-> {}, parts |-> <<msg>>]

\* The library's newError(message, sentinel, more...): the sentinel's text,
\* then the message, then the errors wrapped with it.
NewError(sentinelText, sentinel, msg, more) ==
    [isNil |-> FALSE, is |-> {sentinel} \cup more.is,
     parts |-> <<sentinelText>>
               \o (IF msg = "" THEN <<>> ELSE <<": ", msg>>)
               \o (IF more.isNil THEN <<>> ELSE <<": ">> \o more.parts)]

\* The instants of the clock, and a token string by what the parser looks at.
Instants == 0..MaxClock
NumericDate(i) == [Time |-> i]            \* *jwt.NumericDate; Nil when absent
Algs == {"RS256", "HS256", "unknown"}
TokenStrings ==
    [segments : {"three", "other"},       \* header.claims.signature, or not
     alg : Algs,                          \* the header's alg
     claimsJSON : {"ok", "unparseable"},  \* does the claims segment decode
     signature : {"valid", "invalid"},    \* under RS256 and the public key
     user_id : {"", "u1"},
     exp : {Nil} \cup {NumericDate(i) : i \in Instants},
     iat : {Nil, NumericDate(0)}]

\* The key function ParseJWT hands to the parser.
keyFunc(alg) ==
    IF alg # "RS256"
    THEN [key |-> Nil,
          err |-> [isNil |-> FALSE, is |-> {},
                   parts |-> <<"incorrect signature", ": ", alg>>]]
    ELSE [key |-> "publicKey", err |-> NoError]

\* &CustomClaims{} as the parser filled it.
CustomClaims(tok) ==
    [type |-> "*CustomClaims", UserID |-> tok.user_id,
     ExpiresAt |-> tok.exp, IssuedAt |-> tok.iat]

NoToken == [Valid |-> FALSE, Claims |-> Nil]

\* jwt.ParseWithClaims(tokenString, &CustomClaims{}, keyFunc) called at now.
ParseWithClaims(tok, now) ==
    LET k == keyFunc(tok.alg)
        fail(e) == [token |-> NoToken, err |-> e]
    IN  IF tok.segments # "three"
        THEN fail(NewError("token is malformed", "ErrTokenMalformed",
                           "token contains an invalid number of segments", NoError))
        ELSE IF tok.claimsJSON # "ok"
        THEN fail(NewError("token is malformed", "ErrTokenMalformed",
                           "could not JSON decode claim", NoError))
        ELSE IF tok.alg = "unknown"
        THEN fail(NewError("token is unverifiable", "ErrTokenUnverifiable",
                           "signing method (alg) is unavailable", NoError))
        ELSE IF ~k.err.isNil
        THEN fail(NewError("token is unverifiable", "ErrTokenUnverifiable",
                           "error while executing keyfunc", k.err))
        ELSE IF tok.signature # "valid"
        THEN fail(NewError("token signature is invalid", "ErrTokenSignatureInvalid",
                           "", ErrorsNew("crypto/rsa: verification error")))
        ELSE IF tok.exp # Nil /\ ~(now < tok.exp.Time)
        THEN fail(NewError("token has invalid claims", "ErrTokenInvalidClaims", "",
                           [isNil |-> FALSE, is |-> {"ErrTokenExpired"},
                            parts |-> <<"token is expired">>]))
        ELSE [token |-> [Valid |-> TRUE, Claims |-> CustomClaims(tok)],
              err |-> NoError]

\* fmt.Errorf("parse token error: %v", err): the chain is cut.
ErrorfParseV(err) ==
    [isNil |-> FALSE, is |-> {}, parts |-> <<"parse token error", ": ">> \o err.parts]

\* fmt.Errorf("parse token error: %w", err)
ErrorfParse(err) ==
    [isNil |-> FALSE, is |-> err.is,
     parts |-> <<"parse token error", ": ">> \o err.parts]

\* What a call returns: the payload map (Nil for nil) and the error, or a
\* panic (a nil pointer dereferenced).
Returns(claims, err) == [claims |-> claims, err |-> err, panic |-> FALSE]
Panics == [claims |-> Nil, err |-> NoError, panic |-> TRUE]

\* ParseJWT(tokenString, publicKey): now is the instant the parser reads the
\* clock at, later the instant of ParseJWT's own time.Now().
ParseJWT(tok, now, later) ==
    LET p == ParseWithClaims(tok, now)
        claims == p.token.Claims
    IN  IF ~p.err.isNil THEN Returns(Nil, ErrorfParse(p.err))
        ELSE IF ~p.token.Valid THEN Returns(Nil, ErrorsNew("invalid token"))
        ELSE IF claims.type # "*CustomClaims"
        THEN Returns(Nil, ErrorsNew("error parse claims"))
        ELSE IF claims.ExpiresAt # Nil /\ claims.ExpiresAt.Time < later
        THEN Returns(Nil, ErrorsNew("expired token"))
        ELSE IF claims.ExpiresAt = Nil \/ claims.IssuedAt = Nil
        THEN Panics
        ELSE Returns([user_id |-> claims.UserID, exp |-> claims.ExpiresAt.Time,
                      iat |-> claims.IssuedAt.Time], NoError)

\* A process that calls ParseJWT on the tokens it is given.
InitJWT ==
    /\ proc = "jwt"
    /\ cfg = NoConfig
    /\ clients = <<>>
    /\ req = <<>>
    /\ jwt = NoParse
    /\ boot = NoBoot

ParseToken(tok, now, later) ==
    /\ proc = "jwt"
    /\ jwt.pc = "idle"
    /\ now <= later
    /\ jwt' = [pc |-> "returned", token |-> tok, now |-> now, later |-> later,
               res |-> ParseJWT(tok, now, later)]
    /\ UNCHANGED <<static, req>>

\* The caller is done with the result.
Discard ==
    /\ proc = "jwt"
    /\ jwt.pc = "returned"
    /\ jwt' = NoParse
    /\ UNCHANGED <<static, req>>

ParseAny ==
    \E tok \in TokenStrings, now \in Instants, later \in Instants :
        ParseToken(tok, now, later)

NextJWT ==
    \/ ParseAny
    \/ Discard

SpecJWT == InitJWT /\ [][NextJWT]_vars

----------------------------------------------------------------------------
(* Properties *)

\* The adapter method of slot s has returned.
Returned(r) == r.pc = "done" /\ r.op # ""

\* ... and its last attempt was answered by the backend, with an error
\* status or with a response.
EndedByBackendError(r) ==
    Returned(r) /\ r.lastEnd = "answer" /\ ~r.lastAns.ok
EndedBySuccess(r) ==
    Returned(r) /\ r.lastEnd = "answer" /\ r.lastAns.ok

\* C1. When the backend answers every attempt of a call with a retryable
\* status (NotFound, Aborted, DeadlineExceeded), the adapter has issued
\* exactly 1 + retriesCount attempts when it returns the failure.
C1_AttemptsAreOnePlusRetries ==
    \A s \in Slots :
        LET r == req[s]
        IN  (/\ EndedByBackendError(r)
             /\ r.onlyRetryable
             /\ r.answered = Len(r.sent))
            => Len(r.sent) = 1 + ClientOf(r).max

\* C2. An attempt answered with a status outside {NotFound, Aborted,
\* DeadlineExceeded} is the last attempt of its call: the adapter has
\* returned that failure and issues nothing further.
C2_NonRetryableStatusEndsCall ==
    \A s \in Slots :
        LET r == req[s]
        IN  (/\ r.lastEnd = "answer"
             /\ ~r.lastAns.ok
             /\ r.lastAns.code \notin RetryCodes)
            => /\ r.pc = "done"
               /\ r.result.err.code = r.lastAns.code

\* C3. A call that fails because the backend answered its last attempt with
\* an error status returns an error that is still a gRPC status error, with
\* the code and the message of that last answer, under the operation tag.
C3_ErrorCarriesLastStatus ==
    \A s \in Slots :
        LET r == req[s]
        IN  EndedByBackendError(r)
            => /\ ~r.result.err.isNil
               /\ r.result.err.grpc
               /\ r.result.err.code = r.lastAns.code
               /\ Contains(r.result.err, BackendMsg(r.lastAns.code))
               /\ Contains(r.result.err, Tag(r.op))

C3_Witness ==
    \E s \in Slots :
        /\ EndedByBackendError(req[s])
        /\ Len(req[s].sent) >= 3
        /\ req[s].lastAns.code = "NotFound"
        /\ req[s].result.err.code = "NotFound"

\* C4. Every error an adapter method returns contains the method's tag, the
\* tag is not empty, and no other method has the same tag nor is another
\* method's tag in the error.
C4_ErrorNamesItsOperation ==
    \A s \in Slots :
        LET r == req[s]
        IN  (Returned(r) /\ ~r.result.err.isNil)
            => /\ Tag(r.op) # ""
               /\ Contains(r.result.err, Tag(r.op))
               /\ \A o \in Ops \ {r.op} :
                      /\ Tag(o) # Tag(r.op)
                      /\ ~Contains(r.result.err, Tag(o))

C4_Witness ==
    \E s \in Slots :
        /\ Returned(req[s])
        /\ req[s].op = "GetOrder"
        /\ ~req[s].result.err.isNil
        /\ Contains(req[s].result.err, "grpc.order.get_order")

\* C5. On a successful answer without the embedded payload GetOrder and
\* GetProduct return (nil, nil), while GetUser returns an error that says
\* "user details are empty" under its tag; GetUser never returns nil
\* details with a nil error.
C5_EmptyPayloadAsymmetry ==
    \A s \in Slots :
        LET r == req[s]
        IN  /\ (EndedBySuccess(r) /\ r.op = "GetOrder"
                  /\ r.lastAns.resp.OrderDetails = Nil)
               => r.result = [vals |-> <<Nil>>, err |-> NilErr]
            /\ (EndedBySuccess(r) /\ r.op = "GetProduct"
                  /\ r.lastAns.resp.ProductDetails = Nil)
               => r.result = [vals |-> <<Nil>>, err |-> NilErr]
            /\ (EndedBySuccess(r) /\ r.op = "GetUser"
                  /\ r.lastAns.resp.UserDetails = Nil)
               => /\ ~r.result.err.isNil
                  /\ Contains(r.result.err, "user details are empty")
                  /\ Contains(r.result.err, Tag("GetUser"))
            /\ (Returned(r) /\ r.op = "GetUser")
               => ~(r.result.vals[1] = Nil /\ r.result.err.isNil)

C5_Witness ==
    \E s \in Slots :
        /\ EndedBySuccess(req[s])
        /\ req[s].op = "GetUser"
        /\ req[s].lastAns.resp.UserDetails = Nil
        /\ ~req[s].result.err.isNil

\* The values of a response, in the order of the method's return list.
ValuesOfResponse(op, resp) ==
    CASE op = "Register"       -> <<resp.UserId>>
      [] op = "Login"          -> <<resp.Token>>
      [] op = "GetUser"        -> <<resp.UserDetails>>
      [] op = "CreateOrder"    -> <<resp.OrderId, resp.TotalPrice>>
      [] op = "GetOrder"       -> <<resp.OrderDetails>>
      [] op = "ListUserOrders" -> <<resp.Orders>>
      [] op = "GetProduct"     -> <<resp.ProductDetails>>
      [] op = "ListProducts"   -> <<resp.Products>>
      [] op = "CheckStock"     -> <<resp.IsAvailable>>
      [] op = "UpdateStock"    -> <<>>

\* C6 as stated. Whenever the last attempt succeeds, the adapter returns no
\* error and exactly the values of the backend's response.
C6_SuccessReturnsResponse_AllOps ==
    \A s \in Slots :
        LET r == req[s]
        IN  EndedBySuccess(r)
            => /\ r.result.err.isNil
               /\ r.result.vals = ValuesOfResponse(r.op, r.lastAns.resp)

\* C6, amended. Whenever the last attempt succeeds, and the call is not a
\* GetUser answered without user details, the adapter returns no error and
\* exactly the values of the backend's response, lists element for element.
C6_SuccessReturnsResponse ==
    \A s \in Slots :
        LET r == req[s]
        IN  (/\ EndedBySuccess(r)
             /\ ~(r.op = "GetUser" /\ r.lastAns.resp.UserDetails = Nil))
            => /\ r.result.err.isNil
               /\ r.result.vals = ValuesOfResponse(r.op, r.lastAns.resp)

C6_Witness ==
    \E s \in Slots :
        /\ EndedBySuccess(req[s])
        /\ req[s].op = "ListUserOrders"
        /\ Len(req[s].sent) >= 2
        /\ Len(req[s].lastAns.resp.Orders) = 2
        /\ req[s].lastAns.resp.Orders[1] # req[s].lastAns.resp.Orders[2]
        /\ req[s].result.vals[1] = req[s].lastAns.resp.Orders

\* Message m has exactly the caller's arguments a of method op, each in the
\* field of its name.
CarriesArguments(op, a, m) ==
    CASE op = "Register" ->
            /\ DOMAIN m = {"Email", "Login", "Password"}
            /\ m.Email = a.email /\ m.Login = a.login /\ m.Password = a.password
      [] op = "Login" ->
            /\ DOMAIN m = {"Login", "Password"}
            /\ m.Login = a.login /\ m.Password = a.password
      [] op = "GetUser" -> DOMAIN m = {"UserId"} /\ m.UserId = a.userID
      [] op = "CreateOrder" ->
            /\ DOMAIN m = {"UserId", "Items"}
            /\ m.UserId = a.userID
            /\ Len(m.Items) = Len(a.items)
            /\ \A i \in DOMAIN a.items :
                   /\ m.Items[i].ProductId = a.items[i].ProductId
                   /\ m.Items[i].Quantity = a.items[i].Quantity
                   /\ m.Items[i].Price = a.items[i].Price
      [] op = "GetOrder" -> DOMAIN m = {"OrderId"} /\ m.OrderId = a.orderID
      [] op = "ListUserOrders" -> DOMAIN m = {"UserId"} /\ m.UserId = a.userID
      [] op = "GetProduct" -> DOMAIN m = {"ProductId"} /\ m.ProductId = a.productID
      [] op = "ListProducts" -> DOMAIN m = {"Filter"} /\ m.Filter = a.filter
      [] op = "CheckStock" ->
            /\ DOMAIN m = {"ProductId", "Quantity"}
            /\ m.ProductId = a.productID /\ m.Quantity = a.quantity
      [] op = "UpdateStock" ->
            /\ DOMAIN m = {"ProductId", "QuantityChange"}
            /\ m.ProductId = a.productID /\ m.QuantityChange = a.quantityChange

\* C7. Every request that reaches the backend carries the caller's
\* arguments unchanged, each in its field, on every attempt; and no
\* argument value keeps a call from being sent: a call whose context is
\* still live when it returns has reached the backend.
C7_RequestCarriesArguments ==
    \A s \in Slots :
        LET r == req[s]
        IN  /\ \A i \in DOMAIN r.sent : CarriesArguments(r.op, r.args, r.sent[i])
            /\ (Returned(r) /\ r.ctx = "live") => Len(r.sent) >= 1

C7_Witness ==
    \E s \in Slots :
        /\ req[s].op = "Register"
        /\ Len(req[s].sent) >= 2
        /\ req[s].args.login = "bob" /\ req[s].args.password = "" 
        /\ req[s].sent[2].Login = "bob" /\ req[s].sent[2].Password = ""

C7_WitnessNegativeQuantity ==
    \E s \in Slots :
        /\ req[s].op = "UpdateStock"
        /\ Len(req[s].sent) >= 1
        /\ req[s].args.quantityChange < 0
        /\ req[s].sent[1].QuantityChange = req[s].args.quantityChange

\* The members a route requires, and how a body can fail to give one.
Required(route) ==
    IF route = "/register" THEN {"email", "password", "login"}
    ELSE {"login", "password"}
JSONObject(body) == body.kind = "object"
MissingOrEmpty(fv) == fv.t = "missing" \/ (fv.t = "string" /\ fv.s = "")
MissingNullOrEmpty(fv) == fv.t = "null" \/ MissingOrEmpty(fv)
NonEmptyString(fv) == fv.t = "string" /\ fv.s # ""

\* The body decodes into the route's request struct: it is a JSON object or
\* null, and no required member is of a type other than string or null.
Decodes(route, body) ==
    /\ body.kind \in {"null", "object"}
    /\ \A f \in Required(route) : body.fields[f].t # "number"

IsError400(r) ==
    /\ r.pc = "done"
    /\ r.response.code = 400
    /\ DOMAIN r.response.body = {"error"}
    /\ r.response.body.error # ""

\* C8 as stated, for the well-formed bodies that are JSON objects. /register
\* with a JSON object in which a required member is missing or empty answers
\* 400 with the required-fields message; an unreadable body or malformed
\* JSON on either route answers 400 with an error body.
C8_MissingFieldIs400_WellFormed ==
    \A s \in Slots :
        LET r == req[s]
        IN  r.kind = "http"
            => /\ (/\ r.route = "/register"
                   /\ JSONObject(r.body)
                   /\ \E f \in Required(r.route) : MissingOrEmpty(r.body.fields[f]))
                  => /\ IsError400(r)
                     /\ r.response.body.error =
                            "Email, password, and login are required"
               /\ r.body.kind \in {"unreadable", "malformed"} => IsError400(r)

\* C8, amended. /register with a body that decodes into the request struct
\* and in which a required member is missing, null or empty answers 400
\* with the required-fields message; an unreadable body, malformed JSON, or
\* JSON that does not decode into the request struct, on either route,
\* answers 400 with an error body.
C8_MissingFieldIs400 ==
    \A s \in Slots :
        LET r == req[s]
        IN  r.kind = "http"
            => /\ (/\ r.route = "/register"
                   /\ Decodes(r.route, r.body)
                   /\ \E f \in Required(r.route) :
                          MissingNullOrEmpty(r.body.fields[f]))
                  => /\ IsError400(r)
                     /\ r.response.body.error =
                            "Email, password, and login are required"
               /\ (\/ r.body.kind \in {"unreadable", "malformed"}
                   \/ ~Decodes(r.route, r.body))
                  => IsError400(r)

C8_Witness ==
    \E s \in Slots :
        /\ req[s].kind = "http"
        /\ req[s].route = "/register"
        /\ req[s].body.kind = "object"
        /\ req[s].body.fields.password.t = "missing"
        /\ NonEmptyString(req[s].body.fields.email)
        /\ NonEmptyString(req[s].body.fields.login)
        /\ req[s].response.code = 400
        /\ req[s].response.body.error = "Email, password, and login are required"

C8_WitnessMalformedLogin ==
    \E s \in Slots :
        /\ req[s].kind = "http"
        /\ req[s].route = "/login"
        /\ req[s].body.kind = "malformed"
        /\ req[s].response.code = 400

\* C9. A request answered 400 has called neither the processor nor an
\* adapter and no attempt has reached a backend; and a request for which
\* the processor was called or an attempt was issued has every required
\* member a non-empty string.
C9_Rejected400NeverReachesBackend ==
    \A s \in Slots :
        LET r == req[s]
        IN  r.kind = "http"
            => /\ (r.response # NoResponse /\ r.response.code = 400)
                  => /\ r.facade = ""
                     /\ r.op = ""
                     /\ r.sent = <<>>
               /\ (r.facade # "" \/ r.op # "" \/ r.sent # <<>>)
                  => /\ r.body.kind = "object"
                     /\ \A f \in Required(r.route) :
                            NonEmptyString(r.body.fields[f])

C9_Witness ==
    \E s \in Slots :
        /\ req[s].kind = "http"
        /\ req[s].route = "/login"
        /\ req[s].body.kind = "object"
        /\ NonEmptyString(req[s].body.fields.login)
        /\ req[s].body.fields.password = [t |-> "string", s |-> ""]
        /\ req[s].pc = "done"
        /\ req[s].response.code = 400
        /\ req[s].sent = <<>>

C9_WitnessReachesBackend ==
    \E s \in Slots :
        /\ req[s].kind = "http"
        /\ req[s].route = "/register"
        /\ Len(req[s].sent) >= 1

\* C10. /login whose Login call succeeds with token T answers 200 with
\* token T and the message "Login successful".
C10_LoginSuccessReturnsToken ==
    \A s \in Slots :
        LET r == req[s]
        IN  (r.kind = "http" /\ r.route = "/login" /\ EndedBySuccess(r))
            => /\ r.response.code = 200
               /\ r.response.body =
                      [token |-> r.lastAns.resp.Token,
                       message |-> "Login successful"]

C10_Witness ==
    \E s \in Slots :
        /\ req[s].kind = "http"
        /\ req[s].route = "/login"
        /\ EndedBySuccess(req[s])
        /\ Len(req[s].sent) >= 2
        /\ req[s].lastAns.resp.Token = "abc123"
        /\ req[s].response.code = 200
        /\ req[s].response.body.token = "abc123"

\* An HTTP request whose handler called the processor, which has returned.
ProcessorReturned(r) == r.kind = "http" /\ r.facade # "" /\ r.pc = "done"

\* C11. /login whose Login call failed, whatever the failure (any backend
\* status, a per-attempt timeout, the request's context ending), answers 401
\* and never 500, and the whole response is the same for every failure.
C11_LoginFailureIsAlways401 ==
    \A s \in Slots :
        LET r == req[s]
        IN  (ProcessorReturned(r) /\ r.route = "/login" /\ ~r.result.err.isNil)
            => /\ r.response.code = 401
               /\ r.response =
                      [code |-> 401, contentType |-> "application/json",
                       body |-> [error |-> "Login failed. Check credentials."]]

C11_Witness ==
    \E s \in Slots :
        /\ req[s].route = "/login"
        /\ EndedByBackendError(req[s])
        /\ req[s].lastAns.code = "Unavailable"
        /\ req[s].response.code = 401

C11_WitnessDeadline ==
    \E s \in Slots :
        /\ req[s].route = "/login"
        /\ Returned(req[s])
        /\ req[s].lastEnd = "timeout"
        /\ req[s].result.err.code = "DeadlineExceeded"
        /\ req[s].response.code = 401

\* The position of event e in the events of r, 0 when it is not there.
FirstIndex(events, e) ==
    IF \E i \in DOMAIN events : events[i] = e
    THEN CHOOSE i \in DOMAIN events :
             events[i] = e /\ \A j \in 1..(i - 1) : events[j] # e
    ELSE 0

\* C12. /register whose registration failed answers 500 with the fixed
\* message; the body is that message alone, whatever the error, and holds
\* none of the pieces of the error's text (status, message, tag); and the
\* error is logged before the response is written, which happens once, last.
C12_RegisterFailureIsGeneric500 ==
    \A s \in Slots :
        LET r == req[s]
            logged == LogEntry("ERROR", "Processor failed to register user",
                               r.presult.err)
        IN  (ProcessorReturned(r) /\ r.route = "/register" /\ ~r.result.err.isNil)
            => /\ r.response =
                      [code |-> 500, contentType |-> "application/json",
                       body |-> [error |-> "Failed to register user"]]
               /\ ~r.presult.err.isNil
               /\ ~Contains(r.presult.err, r.response.body.error)
               /\ Contains(logged.err, Tag("Register"))
               /\ FirstIndex(r.events, logged) > 0
               /\ FirstIndex(r.events, logged)
                      < FirstIndex(r.events, Written(r.response))
               /\ FirstIndex(r.events, Written(r.response)) = Len(r.events)

C12_Witness ==
    \E s \in Slots :
        /\ req[s].route = "/register"
        /\ EndedByBackendError(req[s])
        /\ req[s].lastAns.code = "Internal"
        /\ req[s].response.code = 500
        /\ Len(req[s].events) = 3

\* The string member f of a body.
Member(body, f) == body.fields[f].s

\* C13. Every Register request /register causes carries the body's email,
\* login and password, each in the field of its name; and when the backend
\* succeeds with user id U the response is 201 with user_id = U.
C13_RegisterPassesFieldsAndUserId ==
    \A s \in Slots :
        LET r == req[s]
        IN  (r.kind = "http" /\ r.route = "/register")
            => /\ \A i \in DOMAIN r.sent :
                      r.sent[i] = [Email |-> Member(r.body, "email"),
                                   Login |-> Member(r.body, "login"),
                                   Password |-> Member(r.body, "password")]
               /\ EndedBySuccess(r)
                  => /\ r.response.code = 201
                     /\ r.response.body =
                            [user_id |-> r.lastAns.resp.UserId,
                             message |-> "User registered successfully"]

C13_Witness ==
    \E s \in Slots :
        /\ req[s].kind = "http"
        /\ req[s].route = "/register"
        /\ EndedBySuccess(req[s])
        /\ req[s].sent[1] = [Email |-> "e@x", Login |-> "bob", Password |-> "pw"]
        /\ req[s].lastAns.resp.UserId = 123
        /\ req[s].response.code = 201
        /\ req[s].response.body.user_id = 123

\* C14. RegisterUser and LoginUser return an error exactly when the adapter
\* did; that error is the adapter's under the prefix "user service error",
\* with the adapter's tag and the status of the backend still in it; and a
\* success returns the adapter's value.
C14_FacadeRelabelsNeverSuppresses ==
    \A s \in Slots :
        LET r == req[s]
        IN  ProcessorReturned(r)
            => /\ r.presult.err.isNil <=> r.result.err.isNil
               /\ ~r.result.err.isNil
                  => /\ r.presult.err.parts =
                            <<"user service error", ": ">> \o r.result.err.parts
                     /\ Contains(r.presult.err, Tag(r.op))
                     /\ r.presult.err.grpc = r.result.err.grpc
                     /\ r.presult.err.code = r.result.err.code
                     /\ EndedByBackendError(r)
                        => /\ r.presult.err.code = r.lastAns.code
                           /\ Contains(r.presult.err, BackendMsg(r.lastAns.code))
               /\ r.result.err.isNil => r.presult.vals = r.result.vals

C14_Witness ==
    \E s \in Slots :
        /\ ProcessorReturned(req[s])
        /\ req[s].facade = "LoginUser"
        /\ EndedByBackendError(req[s])
        /\ req[s].lastAns.code = "Unauthenticated"
        /\ req[s].presult.err.code = "Unauthenticated"
        /\ Contains(req[s].presult.err, "user service error")

C14_WitnessSuccess ==
    \E s \in Slots :
        /\ ProcessorReturned(req[s])
        /\ req[s].facade = "RegisterUser"
        /\ EndedBySuccess(req[s])
        /\ req[s].presult = [vals |-> <<123>>, err |-> NilErr]

\* C15. The attempts of one call are sequential: at most one attempt is open
\* at any moment, and when the interceptor is about to issue attempt N+1,
\* attempt N has ended, with an answer of the backend or by its per-attempt
\* timeout, and so have all the attempts before it.
C15_AttemptsAreSequential ==
    \A s \in Slots :
        LET r == req[s]
        IN  /\ r.open \in {0, 1}
            /\ r.open = 1 <=> r.pc = "inflight"
            /\ r.pc = "inflight" => Len(r.sent) = r.attempt + 1
            /\ (r.pc = "ready" /\ r.attempt > 0)
               => /\ r.open = 0
                  /\ Len(r.sent) = r.attempt
                  /\ r.lastEnd \in {"answer", "timeout"}

C15_Witness ==
    \E s \in Slots :
        /\ req[s].pc = "inflight"
        /\ Len(req[s].sent) = 3
        /\ req[s].timeouts >= 1
        /\ req[s].answered >= 1
        /\ req[s].open = 1

\* The records a request with record r can move to in one step when only
\* its own record, the adapters and its own input (the body that arrives,
\* the backend's answer to its attempt, its context ending) are looked at.
OwnArrival(route, body) ==
    LET h == Handler(route, body)
        a == [FreeSlot EXCEPT !.kind = "http", !.route = route, !.body = body,
                              !.log = h.log, !.events = h.events]
    IN  IF h.call
        THEN [a EXCEPT !.facade = h.facade, !.op = h.op, !.args = h.args,
                       !.pc = "ready"]
        ELSE [a EXCEPT !.response = h.response, !.pc = "done"]

OwnSteps(r) ==
    (IF r.kind = "free"
     THEN {OwnArrival(route, body) : route \in Routes, body \in Bodies}
     ELSE {})
    \cup
    (IF r.pc = "ready" /\ r.ctx = "live"
     THEN {[r EXCEPT !.pc = "inflight", !.open = @ + 1,
                     !.sent = Append(@, Request(r.op, r.args))]}
     ELSE {})
    \cup
    (IF r.pc = "inflight"
     THEN {EndAttempt([r EXCEPT !.answered = @ + 1, !.lastAns = ans,
                           !.lastEnd = "answer",
                           !.onlyRetryable = @ /\ ans.code \in RetryCodes],
                      ans.resp, AnswerErr(ans)) : ans \in AnswersOf(r.op)}
     ELSE {})
    \cup
    (IF r.pc = "inflight" /\ AttemptHasDeadline(ClientOf(r))
     THEN {EndAttempt([r EXCEPT !.timeouts = @ + 1, !.lastEnd = "timeout"],
                      NoResp, ContextErr("DeadlineExceeded"))}
     ELSE {})
    \cup
    (IF r.pc = "inflight" /\ r.ctx = "live"
     THEN {EndAttempt([r EXCEPT !.ctx = kind, !.lastEnd = "context"],
                      NoResp, ContextErr(kind)) :
               kind \in {"Canceled", "DeadlineExceeded"}}
     ELSE {})
    \cup
    (IF r.pc = "ready" /\ r.ctx = "live"
     THEN {Finish([r EXCEPT !.ctx = kind, !.lastEnd = "context"],
                  NoResp, ContextErr(kind)) :
               kind \in {"Canceled", "DeadlineExceeded"}}
     ELSE {})
    \cup
    (IF r.pc = "done" THEN {FreeSlot} ELSE {})

\* C16. With several requests in flight, in every step: the adapters and
\* the configuration stay as main() built them; at most one request's
\* record changes; and it changes to a record that depends on nothing but
\* that request's own record and input, so its response and its count of
\* attempts never depend on another request.
C16_RequestsDoNotInterfere ==
    [][/\ clients' = clients /\ cfg' = cfg /\ proc' = proc
       /\ DOMAIN req' = DOMAIN req
       /\ \A s \in Slots :
              req'[s] # req[s]
              => /\ req'[s] \in OwnSteps(req[s])
                 /\ \A t \in Slots \ {s} : req'[t] = req[t]]_vars

C16_Witness ==
    \E s \in Slots, t \in Slots :
        /\ s # t
        /\ req[s].route = "/register" /\ req[t].route = "/login"
        /\ req[s].pc = "inflight" /\ Len(req[s].sent) = 2
        /\ req[t].pc = "done" /\ Len(req[t].sent) = 1
        /\ req[t].response.code = 200
        /\ req[t].response.body.token = "abc123"

\* C17. In the step in which a caller's context ends (the request is
\* cancelled or its deadline passes) during an adapter call, the attempt in
\* flight ends, no attempt is issued, and the call returns the context's
\* error, whatever budget remains and whatever the last status was; and
\* from then on the request does nothing but hand back its result.
C17_CancellationEndsTheCall ==
    [][\A s \in Slots :
           /\ (req[s].ctx = "live" /\ req'[s].ctx # "live")
              => /\ req[s].pc \in {"ready", "inflight"}
                 /\ req'[s].pc = "done"
                 /\ req'[s].open = 0
                 /\ req'[s].sent = req[s].sent
                 /\ ~req'[s].result.err.isNil
                 /\ req'[s].result.err.code = req'[s].ctx
           /\ req[s].ctx # "live"
              => req'[s] \in {req[s], FreeSlot}]_vars

C17_Witness ==
    \E s \in Slots :
        /\ req[s].kind = "http"
        /\ req[s].ctx = "Canceled"
        /\ req[s].pc = "done"
        /\ req[s].answered = 1
        /\ req[s].lastAns.code = "NotFound"
        /\ Len(req[s].sent) = 1
        /\ ClientOf(req[s]).max = 3
        /\ req[s].response.code = 500

C17_WitnessInFlight ==
    \E s \in Slots :
        /\ req[s].kind = "http"
        /\ req[s].ctx = "DeadlineExceeded"
        /\ req[s].pc = "done"
        /\ req[s].answered = 0 /\ req[s].timeouts = 1
        /\ Len(req[s].sent) = 2
        /\ ClientOf(req[s]).max = 3

\* C18. After an attempt ran into the per-attempt timeout with the caller's
\* context live: while fewer than 1 + retriesCount attempts have been issued
\* the call goes on to its next attempt, and it has returned, with
\* DeadlineExceeded, only when 1 + retriesCount attempts have been issued.
C18_TimeoutRetriedWhileBudgetRemains ==
    \A s \in Slots :
        LET r == req[s]
        IN  (r.lastEnd = "timeout" /\ r.ctx = "live" /\ r.open = 0)
            => IF Len(r.sent) < 1 + ClientOf(r).max
               THEN r.pc = "ready"
               ELSE /\ r.pc = "done"
                    /\ r.result.err.code = "DeadlineExceeded"

\* What ParseJWT was called on, once it has returned.
Parsed == jwt.pc = "returned"

\* A token in three decodable segments, signed with RS256 by the key's owner.
WellSigned(tok) ==
    /\ tok.segments = "three" /\ tok.claimsJSON = "ok"
    /\ tok.alg = "RS256" /\ tok.signature = "valid"

\* The messages ParseJWT itself gives its errors.
OwnMessages ==
    {"parse token error", "incorrect signature", "invalid token",
     "error parse claims", "expired token"}

\* The kind of an error, as a caller can tell it: the sentinels errors.Is
\* finds in it and the messages of ParseJWT in its text.
Kind(err) ==
    [is |-> err.is, own |-> {m \in OwnMessages : Contains(err, m)}]

ExpiredKind(err) ==
    ~err.isNil /\ ("ErrTokenExpired" \in err.is \/ Contains(err, "expired token"))

\* C19. ParseJWT on a well-signed token whose exp is before the time of the
\* call returns an error and no claims; the error is of the expired kind,
\* and no malformed or unverifiable token gets an error of that kind: the
\* kinds differ.
C19_ExpiredTokenIsRejectedAsExpired ==
    (/\ Parsed
     /\ WellSigned(jwt.token)
     /\ jwt.token.exp # Nil
     /\ jwt.token.exp.Time < jwt.now)
    => /\ ~jwt.res.panic
       /\ ~jwt.res.err.isNil
       /\ jwt.res.claims = Nil
       /\ ExpiredKind(jwt.res.err)
       /\ \A t \in TokenStrings :
              ~WellSigned(t)
              => LET e == ParseJWT(t, jwt.now, jwt.later).err
                 IN  /\ ~e.isNil
                     /\ ~ExpiredKind(e)
                     /\ Kind(e) # Kind(jwt.res.err)

C19_Witness ==
    /\ Parsed
    /\ WellSigned(jwt.token)
    /\ jwt.token.exp = NumericDate(1) /\ jwt.now = 2
    /\ jwt.token.iat = NumericDate(0)
    /\ ~jwt.res.err.isNil
    /\ "ErrTokenExpired" \in jwt.res.err.is
    /\ jwt.res.claims = Nil

\* The one failure condition a token shows of the four, when it shows
\* exactly one and is otherwise in order ("none" otherwise).
FailureCondition(tok, now) ==
    LET fresh == tok.exp # Nil /\ now < tok.exp.Time
        expired == tok.exp # Nil /\ tok.exp.Time < now
    IN  IF tok.segments = "other" /\ tok.claimsJSON = "ok" /\ tok.alg = "RS256"
           /\ tok.signature = "valid" /\ fresh
        THEN "malformed or unverifiable"
        ELSE IF tok.segments = "three" /\ tok.claimsJSON = "ok" /\ tok.alg = "RS256"
                /\ tok.signature = "invalid" /\ fresh
        THEN "malformed or unverifiable"
        ELSE IF tok.segments = "three" /\ tok.claimsJSON = "ok" /\ tok.alg = "HS256"
                /\ fresh
        THEN "wrong algorithm"
        ELSE IF tok.segments = "three" /\ tok.claimsJSON = "unparseable"
                /\ tok.alg = "RS256" /\ tok.signature = "valid"
        THEN "unparseable claims"
        ELSE IF WellSigned(tok) /\ expired
        THEN "expired"
        ELSE "none"

\* C20. Two tokens that show different ones of the four failure conditions
\* get errors of different kinds; and a token signed with a non-RSA
\* algorithm is rejected.
C20_FourFailureKindsAreDistinct ==
    (Parsed /\ FailureCondition(jwt.token, jwt.now) # "none")
    => /\ ~jwt.res.err.isNil
       /\ \A t \in TokenStrings :
              (/\ FailureCondition(t, jwt.now) # "none"
               /\ FailureCondition(t, jwt.now) # FailureCondition(jwt.token, jwt.now))
              => Kind(ParseJWT(t, jwt.now, jwt.later).err) # Kind(jwt.res.err)


----------------------------------------------------------------------------
(* Startup: MustLoad reads the environment, main() builds the three
   adapters and starts the HTTP server. os.Getenv gives "" for a variable
   that is unset and for one that is set to the empty string. *)

\* Seconds of the default timeout, and the default number of retries.
defaultTimeout == 2
defaultRetries == 3

Settings ==
    {"ENV", "HTTP_ADDRESS", "HTTP_TIMEOUT", "IDLE_TIMEOUT",
     "USER_TARGET", "USER_TIMEOUT", "USER_RETRIES",
     "ORDER_TARGET", "ORDER_TIMEOUT", "ORDER_RETRIES",
     "PRODUCT_TARGET", "PRODUCT_TIMEOUT", "PRODUCT_RETRIES"}

TimeoutSettings ==
    {"HTTP_TIMEOUT", "IDLE_TIMEOUT", "USER_TIMEOUT", "ORDER_TIMEOUT",
     "PRODUCT_TIMEOUT"}
RetrySettings == {"USER_RETRIES", "ORDER_RETRIES", "PRODUCT_RETRIES"}
TargetSettings == {"USER_TARGET", "ORDER_TARGET", "PRODUCT_TARGET"}

\* A target grpc.NewClient cannot parse.
MalformedTarget == "%zz"

\* An environment in which every variable is set to a usable value.
BaseEnviron ==
    [ENV |-> "local", HTTP_ADDRESS |-> ":8080",
     HTTP_TIMEOUT |-> "1s", IDLE_TIMEOUT |-> "1s",
     USER_TARGET |-> "user:50051", USER_TIMEOUT |-> "1s",
     USER_RETRIES |-> "2",
     ORDER_TARGET |-> "order:50052", ORDER_TIMEOUT |-> "1s",
     ORDER_RETRIES |-> "2",
     PRODUCT_TARGET |-> "product:50053", PRODUCT_TIMEOUT |-> "1s",
     PRODUCT_RETRIES |-> "2"]

\* The values a variable is given: "" is unset.
ValuesOf(k) ==
    IF k \in TimeoutSettings THEN {"", "1s", "0s", "soon"}
    ELSE IF k \in RetrySettings THEN {"", "0", "2", "-1", "two"}
    ELSE IF k \in TargetSettings THEN {"", BaseEnviron[k], MalformedTarget}
    ELSE {"", BaseEnviron[k]}

\* The environments the process is started in: the usable one with at most
\* two of its variables given another value.
Environs ==
    UNION {UNION {{[BaseEnviron EXCEPT ![k1] = v1, ![k2] = v2] :
                      v1 \in ValuesOf(k1), v2 \in ValuesOf(k2)}
                  : k2 \in Settings \ {k1}}
           : k1 \in Settings}

\* time.ParseDuration on the strings above, in seconds.
ParseDuration(s) ==
    IF s = "1s" THEN [ok |-> TRUE, d |-> 1]
    ELSE IF s = "0s" THEN [ok |-> TRUE, d |-> 0]
    ELSE [ok |-> FALSE, d |-> 0]

\* strconv.Atoi on the strings above.
Atoi(s) ==
    IF s = "0" THEN [ok |-> TRUE, n |-> 0]
    ELSE IF s = "2" THEN [ok |-> TRUE, n |-> 2]
    ELSE IF s = "-1" THEN [ok |-> TRUE, n |-> 0 - 1]
    ELSE [ok |-> FALSE, n |-> 0]

\* One step of MustLoad: it went on with a value, or log.Fatal ended the
\* process; log holds what it printed.
Loaded(value, log) == [fatal |-> FALSE, value |-> value, log |-> log]
Fatal(msg) == [fatal |-> TRUE, value |-> 0, log |-> <<[level |-> "FATAL", msg |-> msg]>>]
Info(msg, value) == [level |-> "INFO", msg |-> msg, value |-> value]

\* setTimeout: the default is assigned to a variable of the inner block and
\* printed; the function's own variable keeps its zero value and is returned.
setTimeout(strTimeout) ==
    IF strTimeout = ""
    THEN LET timeout == 0
             inner == defaultTimeout
         IN  Loaded(timeout,
                    <<Info("USER_TIMEOUT not set, using default value", inner)>>)
    ELSE LET p == ParseDuration(strTimeout)
         IN  IF ~p.ok THEN Fatal("Invalid format for USER_TIMEOUT")
             ELSE Loaded(p.d, <<>>)

setRetries(strRetries) ==
    IF strRetries = ""
    THEN Loaded(defaultRetries,
                <<Info("USER_RETRIES not set, using default value", defaultRetries)>>)
    ELSE LET p == Atoi(strRetries)
         IN  IF ~p.ok THEN Fatal("Invalid format for USER_RETRIES")
             ELSE IF p.n < 0
             THEN Fatal("USER_RETRIES must be a non-negative integer")
             ELSE Loaded(p.n, <<>>)

\* A required variable, as MustLoad tests it: fatal when checked is "".
required(checked, value, msg) ==
    IF checked = "" THEN Fatal(msg) ELSE Loaded(value, <<>>)

RECURSIVE LogUpTo(_, _)
LogUpTo(steps, n) ==
    IF n = 0 THEN <<>> ELSE LogUpTo(steps, n - 1) \o steps[n].log

\* MustLoad: the steps in program order; the first fatal one ends the
\* process. The test that guards HTTP_ADDRESS reads env.
MustLoad(environ) ==
    LET env == environ.ENV
        httpAddress == environ.HTTP_ADDRESS
        steps ==
            <<required(env, env, "ENV is not set"),
              required(env, httpAddress, "HTTP_ADDRESS is not set"),
              setTimeout(environ.HTTP_TIMEOUT),
              setTimeout(environ.IDLE_TIMEOUT),
              required(environ.USER_TARGET, environ.USER_TARGET,
                       "FATAL: USER_TARGET is not set"),
              setTimeout(environ.USER_TIMEOUT),
              setRetries(environ.USER_RETRIES),
              required(environ.ORDER_TARGET, environ.ORDER_TARGET,
                       "FATAL: ORDER_TARGET is not set"),
              setTimeout(environ.ORDER_TIMEOUT),
              setRetries(environ.ORDER_RETRIES),
              required(environ.PRODUCT_TARGET, environ.PRODUCT_TARGET,
                       "FATAL: PRODUCT_TARGET is not set"),
              setTimeout(environ.PRODUCT_TIMEOUT),
              setRetries(environ.PRODUCT_RETRIES)>>
        fatals == {i \in 1..Len(steps) : steps[i].fatal}
        last == IF fatals = {} THEN Len(steps)
                ELSE CHOOSE i \in fatals : \A j \in fatals : i <= j
    IN  [fatal |-> fatals # {},
         log |-> LogUpTo(steps, last),
         cfg |-> IF fatals # {} THEN NoConfig
                 ELSE [Env |-> steps[1].value,
                       HttpAddress |-> steps[2].value,
                       HttpTimeout |-> steps[3].value,
                       IdleTimeout |-> steps[4].value,
                       UserTarget |-> steps[5].value,
                       UserTimeout |-> steps[6].value,
                       UserRetries |-> steps[7].value,
                       OrderTarget |-> steps[8].value,
                       OrderTimeout |-> steps[9].value,
                       OrderRetries |-> steps[10].value,
                       ProductTarget |-> steps[11].value,
                       ProductTimeout |-> steps[12].value,
                       ProductRetries |-> steps[13].value]]

\* grpc.NewClient returns an error for a target it cannot parse, and New
\* returns it wrapped.
NewFails(target) == target = MalformedTarget

\* The adapters in the order main() builds them.
BuildOrder == <<"user", "order", "product">>
TargetOf(c, a) ==
    IF a = "user" THEN c.UserTarget
    ELSE IF a = "order" THEN c.OrderTarget
    ELSE c.ProductTarget

\* The process as the operating system starts it.
InitStartup ==
    /\ proc = "gateway"
    /\ cfg = NoConfig
    /\ clients = <<>>
    /\ req = <<>>
    /\ jwt = NoParse
    /\ \E e \in Environs :
           boot = [pc |-> "main", environ |-> e, code |-> 0, log |-> <<>>]

\* os.Exit(1), after the lines logged.
Exit(log) ==
    boot' = [boot EXCEPT !.pc = "exited", !.code = 1, !.log = boot.log \o log]

\* cfg := config.MustLoad()
Load ==
    /\ boot.pc = "main"
    /\ LET l == MustLoad(boot.environ)
       IN  IF l.fatal
           THEN /\ Exit(l.log)
                /\ UNCHANGED cfg
           ELSE /\ cfg' = l.cfg
                /\ boot' = [boot EXCEPT !.pc = "loaded", !.log = boot.log \o l.log]
    /\ UNCHANGED <<proc, clients, req, jwt>>

\* setupLogger: the lowest level the logger prints.
setupLogger(env) ==
    IF env \in {"local", "dev"} THEN "DEBUG" ELSE "INFO"

\* log.Debug / log.Info / log.Error on the logger of setupLogger: the lines
\* printed (none for a Debug call on a logger of level Info).
Slog(logger, level, msg) ==
    IF level = "DEBUG" /\ logger # "DEBUG" THEN <<>>
    ELSE <<[level |-> level, msg |-> msg]>>

\* main() from setupLogger to log.Info("starting server"): the three calls
\* of New, the processor and the handler; the first New that returns an
\* error is logged and ends the process.
Construct ==
    /\ boot.pc = "loaded"
    /\ LET log == setupLogger(cfg.Env)
           starting == Slog(log, "INFO", "starting url-shortener")
                       \o Slog(log, "DEBUG", "debug messages are enabled")
           failing == {i \in 1..Len(BuildOrder) :
                          NewFails(TargetOf(cfg, BuildOrder[i]))}
           first == CHOOSE i \in failing : \A k \in failing : i <= k
           built == {BuildOrder[i] : i \in {j \in 1..Len(BuildOrder) :
                                              \A k \in failing : j < k}}
       IN  /\ clients' = [a \in built |-> main(cfg)[a]]
           /\ IF failing # {}
              THEN Exit(starting
                        \o Slog(log, "ERROR",
                                "failed to init " \o BuildOrder[first] \o " client"))
              ELSE boot' = [boot EXCEPT
                               !.pc = "constructed",
                               !.log = @ \o starting
                                         \o Slog(log, "INFO", "starting server")]
    /\ UNCHANGED <<proc, cfg, req, jwt>>

\* srv.ListenAndServe(): the server listens and serves, or the call
\* returns an error (the address is taken, or cannot be bound).
Listen(ok) ==
    /\ boot.pc = "constructed"
    /\ IF ok
       THEN /\ boot' = [boot EXCEPT !.pc = "serving"]
            /\ req' = [s \in {1} |-> FreeSlot]
       ELSE /\ Exit(Slog(setupLogger(cfg.Env), "ERROR", "failed to start server"))
            /\ UNCHANGED req
    /\ UNCHANGED <<proc, cfg, clients, jwt>>

ListenAny == \E ok \in BOOLEAN : Listen(ok)

NextStartup == Load \/ Construct \/ ListenAny

SpecStartup == InitStartup /\ [][NextStartup]_vars


----------------------------------------------------------------------------
(* Startup properties *)

RequiredSettings ==
    {"ENV", "HTTP_ADDRESS", "USER_TARGET", "ORDER_TARGET", "PRODUCT_TARGET"}

\* A required variable is unset or empty in the environment of the process.
MissingRequired == \E k \in RequiredSettings : boot.environ[k] = ""

\* C21: the process gets past configuration loading only if ENV,
\* HTTP_ADDRESS and the three backend targets are all present: when one of
\* them is unset or empty, no configuration is loaded, no adapter is
\* constructed and no HTTP server is started.
C21_StartsOnlyWithRequiredSettings ==
    MissingRequired =>
        /\ boot.pc \in {"main", "exited"}
        /\ cfg = NoConfig
        /\ clients = <<>>
        /\ req = <<>>


\* main() has built the three adapters.
Constructed == boot.pc \in {"constructed", "serving"}

\* C22: each adapter is constructed with its own backend's target, timeout
\* and retry count: the order adapter's attempt budget is the order retry
\* setting, whatever the user retry setting is.
C22_EachAdapterBuiltFromItsOwnSettings ==
    Constructed =>
        /\ clients.user = New(cfg.UserTarget, cfg.UserTimeout, cfg.UserRetries)
        /\ clients.order = New(cfg.OrderTarget, cfg.OrderTimeout, cfg.OrderRetries)
        /\ clients.product =
               New(cfg.ProductTarget, cfg.ProductTimeout, cfg.ProductRetries)
        /\ clients.order.max = setRetries(boot.environ.ORDER_RETRIES).value


\* MustLoad has returned a configuration.
ConfigLoaded == boot.pc \in {"loaded", "constructed", "serving"}

\* The field of the configuration a timeout or retry variable is loaded into.
FieldOf(k) ==
    CASE k = "HTTP_TIMEOUT" -> cfg.HttpTimeout
      [] k = "IDLE_TIMEOUT" -> cfg.IdleTimeout
      [] k = "USER_TIMEOUT" -> cfg.UserTimeout
      [] k = "ORDER_TIMEOUT" -> cfg.OrderTimeout
      [] k = "PRODUCT_TIMEOUT" -> cfg.ProductTimeout
      [] k = "USER_RETRIES" -> cfg.UserRetries
      [] k = "ORDER_RETRIES" -> cfg.OrderRetries
      [] k = "PRODUCT_RETRIES" -> cfg.ProductRetries

\* The defaults and the ranges of the loaded retry counts and per-attempt
\* timeouts, apart from the default of an unset timeout.
RetryDefaultsAndRanges ==
    ConfigLoaded =>
        /\ \A k \in RetrySettings :
               /\ boot.environ[k] = "" => FieldOf(k) = defaultRetries
               /\ FieldOf(k) >= 0

\* C25: a timeout variable that is unset loads as the default of 2 seconds,
\* the value the log line announces; a retry variable that is unset loads as
\* 3; every loaded retry count is non-negative and every loaded per-attempt
\* timeout is greater than zero.
C25_DefaultsAndRanges ==
    ConfigLoaded =>
        /\ \A k \in TimeoutSettings :
               boot.environ[k] = "" =>
                   /\ FieldOf(k) = defaultTimeout
                   /\ \E i \in 1..Len(boot.log) :
                          /\ boot.log[i].msg = "USER_TIMEOUT not set, using default value"
                          /\ boot.log[i].value = FieldOf(k)
        /\ \A k \in RetrySettings :
               /\ boot.environ[k] = "" => FieldOf(k) = defaultRetries
               /\ FieldOf(k) >= 0
        /\ \A k \in {"USER_TIMEOUT", "ORDER_TIMEOUT", "PRODUCT_TIMEOUT"} :
               FieldOf(k) > 0


----------------------------------------------------------------------------
(* ParseJWT: totality *)

\* C24: ParseJWT ends every call by returning either a claims mapping or an
\* error and never aborts, also for a token with a valid RSA signature that
\* has no exp or no iat claim; a successful result holds the user id, the
\* issued-at and the expires-at time.
C24_ParseJWTAlwaysReturns ==
    Parsed =>
        /\ ~jwt.res.panic
        /\ jwt.res.err.isNil <=> jwt.res.claims # Nil
        /\ jwt.res.err.isNil => DOMAIN jwt.res.claims = {"user_id", "iat", "exp"}

\* The calls that do return: a token that carries both exp and iat, or one
\* that ParseJWT rejects before it reads the two claims.
ParseJWTReturnsWhenDatesPresent ==
    (Parsed /\ ~jwt.res.panic) =>
        /\ jwt.res.err.isNil <=> jwt.res.claims # Nil
        /\ jwt.res.err.isNil => DOMAIN jwt.res.claims = {"user_id", "iat", "exp"}


----------------------------------------------------------------------------
(* Retries: the attempt that succeeds *)

\* The backend answered the last attempt it answered with a response.
AttemptSucceeded(r) == r.op # "" /\ r.lastAns # NoAns /\ r.lastAns.ok

\* C26: within one adapter call the first attempt that succeeds ends the
\* call: no attempt is issued or open after it, the call returns what the
\* method makes of that response alone, without error and with the
\* response's values (a GetUser response without user details apart, which
\* the method itself turns into an error), whatever statuses the earlier
\* attempts failed with, and none of those statuses is in the result.
C26_FirstSuccessEndsTheCall ==
    \A s \in Slots :
        LET r == req[s]
        IN  AttemptSucceeded(r)
            => /\ r.pc = "done"
               /\ r.lastEnd = "answer"
               /\ r.open = 0
               /\ Len(r.sent) = r.attempt + 1
               /\ r.result = Return(r.op, r.lastAns.resp, NilErr)
               /\ (r.op = "GetUser" => r.lastAns.resp.UserDetails # Nil)
                  => /\ r.result.err.isNil
                     /\ r.result.vals = ValuesOfResponse(r.op, r.lastAns.resp)
               /\ ~r.result.err.grpc
               /\ \A c \in Codes :
                      /\ ~Contains(r.result.err, c)
                      /\ ~Contains(r.result.err, BackendMsg(c))

\* A call that succeeded on a later attempt, after the backend had answered
\* the earlier ones with retryable statuses.
C26_Witness ==
    \E s \in Slots :
        /\ EndedBySuccess(req[s])
        /\ Len(req[s].sent) >= 2
        /\ req[s].answered = Len(req[s].sent)
        /\ req[s].timeouts = 0
        /\ req[s].result.err.isNil
        /\ req[s].result.vals = ValuesOfResponse(req[s].op, req[s].lastAns.resp)


----------------------------------------------------------------------------
(* The serving gateway: every step a request needs from the gateway itself
   is taken (the interceptor issues the attempt it has decided on, a
   per-attempt timer that is set fires); the backend and the HTTP client
   are free to stay silent. *)

InitServing ==
    /\ proc = "gateway"
    /\ cfg \in {c \in Configs :
                   /\ c.OrderTimeout = 1 /\ c.OrderRetries = 0
                   /\ c.ProductTimeout = 1 /\ c.ProductRetries = 0}
    /\ clients = main(cfg)
    /\ req = [s \in {1} |-> FreeSlot]
    /\ jwt = NoParse
    /\ boot = Serving

NextServing ==
    \/ HttpRequestAny
    \/ SendAny
    \/ ReplyAny
    \/ AttemptTimeoutAny
    \/ ContextDoneAny
    \/ ReleaseAny

SpecServing ==
    /\ InitServing
    /\ [][NextServing]_vars
    /\ WF_vars(SendAny)
    /\ WF_vars(AttemptTimeoutAny)

HandlerStatuses == {200, 201, 400, 401, 500}

\* The responses written for the request in a slot so far.
Writes(r) == {i \in 1..Len(r.events) : r.events[i].level = "WRITE"}

\* What holds of every request at every moment: the gateway process is up,
\* a request that has ended has been written exactly one response, with a
\* status of the handlers, and a request that has not ended has been
\* written none.
RequestsNeverGetTwoResponses ==
    /\ boot = Serving
    /\ \A s \in Slots :
           LET r == req[s]
           IN  r.kind = "http"
               => IF r.pc = "done"
                  THEN /\ Cardinality(Writes(r)) = 1
                       /\ r.response.code \in HandlerStatuses
                       /\ \A i \in Writes(r) : r.events[i].response = r.response
                  ELSE /\ Writes(r) = {}
                       /\ r.response = NoResponse

\* C23: while the gateway serves, every request to /register or /login
\* ends: it is written exactly one response, with status 200, 201, 400, 401
\* or 500, whatever its body is and whatever the backend does (answers with
\* any status, or does not answer), and the process stays up.
C23_EveryRequestGetsOneResponse ==
    \A s \in {1} :
        (req[s].kind = "http")
            ~> (/\ req[s].kind = "http"
                /\ req[s].pc = "done"
                /\ Cardinality(Writes(req[s])) = 1
                /\ req[s].response.code \in HandlerStatuses
                /\ boot = Serving)


\* The same for a gateway whose user adapter gives every attempt a deadline
\* (a retry count of at least 1 and a per-attempt timeout other than 0).
BoundedAttemptsEndEveryRequest ==
    AttemptHasDeadline(clients.user) => C23_EveryRequestGetsOneResponse

====
